---- MODULE Spec2Model ----
(***************************************************************************)
(* Model of shgsousa/pype: the minimum-curvature trajectory integrator     *)
(* (src/src/dc/dev_survey.py) and the pressure validation of the PI and    *)
(* Vogel inflow-performance functions (src/src/na/ipr/pi.py, vogel.py).    *)
(*                                                                         *)
(* Python floats are modelled as binary floating-point numbers of reduced  *)
(* precision: a value is an integer count of 2^-FracBits, an operation     *)
(* computes the exact result and rounds it to Precision significant bits,  *)
(* ties to even, as IEEE-754 does with 53 bits.  So 1.0 is Unit, and       *)
(* rounding is visible in sums, products, quotients and in the math        *)
(* functions, which are tabulated correctly rounded at this precision.     *)
(***************************************************************************)
EXTENDS Integers, Sequences, FiniteSets, TLC

\* ------------------------------------------------------------ bounds
\* stations per survey: 0 .. MaxStations
MaxStations == 3
\* pressures and rates of the IPR calls are whole numbers up to MaxP
MaxP == 4

\* ------------------------------------------------- float arithmetic
\* significand bits of the modelled float (53 in the program's float)
Precision == 5
\* the smallest spacing of the modelled float is 2^-FracBits
FracBits == 10

Unit == 2 ^ FracBits
Two == 2 * Unit

Abs(x) == IF x < 0 THEN -x ELSE x

\* 2^Precision: a float has a significand below it
SigLimit == 2 ^ Precision

\* the spacing of the floats around a / den: the smallest power of two q
\* (in units of 2^-FracBits) with a / den < 2^Precision * q
RECURSIVE Quantum(_, _)
Quantum(whole, q) ==
    IF whole >= SigLimit * q THEN Quantum(whole, 2 * q) ELSE q

\* k + r / d, with 0 <= r < d, rounded to the nearest integer, ties to even
NearestEven(k, r, d) ==
    IF 2 * r > d \/ (2 * r = d /\ k % 2 = 1) THEN k + 1 ELSE k

\* a / den (a >= 0, den > 0) rounded to the nearest float, ties to even
RoundScaled(a, d, q) == NearestEven(a \div d, a % d, d) * q
RoundQuantum(a, den, q) == RoundScaled(a, den * q, q)
RoundMagnitude(a, den) == RoundQuantum(a, den, Quantum(a \div den, 1))

\* num / den (den # 0) rounded to the nearest float
Fl(num, den) ==
    IF (num < 0) = (den < 0)
    THEN RoundMagnitude(Abs(num), Abs(den))
    ELSE -RoundMagnitude(Abs(num), Abs(den))

\* float + - * /  (the divisor of FDiv is never 0: Python raises before)
FAdd(a, b) == Fl(a + b, 1)
FSub(a, b) == Fl(a - b, 1)
FMul(a, b) == Fl(a * b, Unit)
FDiv(a, b) == Fl(a * Unit, b)

\* a whole number as a float
Whole(n) == n * Unit

\* math.cos, math.sin, math.tan, math.acos: the real function of the
\* argument, rounded to a float; the tables list every float of the
\* argument range the model reaches
CosTable ==
    0 :> 1024 @@ 1 :> 1024 @@ 2 :> 1024 @@ 3 :> 1024 @@ 4 :> 1024 @@ 5 :> 1024 @@
    6 :> 1024 @@ 7 :> 1024 @@ 8 :> 1024 @@ 9 :> 1024 @@ 10 :> 1024 @@ 11 :> 1024 @@
    12 :> 1024 @@ 13 :> 1024 @@ 14 :> 1024 @@ 15 :> 1024 @@ 16 :> 1024 @@ 17 :> 1024 @@
    18 :> 1024 @@ 19 :> 1024 @@ 20 :> 1024 @@ 21 :> 1024 @@ 22 :> 1024 @@ 23 :> 1024 @@
    24 :> 1024 @@ 25 :> 1024 @@ 26 :> 1024 @@ 27 :> 1024 @@ 28 :> 1024 @@ 29 :> 1024 @@
    30 :> 1024 @@ 31 :> 1024 @@ 32 :> 1024 @@ 34 :> 1024 @@ 36 :> 1024 @@ 38 :> 1024 @@
    40 :> 1024 @@ 42 :> 1024 @@ 44 :> 1024 @@ 46 :> 1024 @@ 48 :> 1024 @@ 50 :> 1024 @@
    52 :> 1024 @@ 54 :> 1024 @@ 56 :> 1024 @@ 58 :> 1024 @@ 60 :> 1024 @@ 62 :> 1024 @@
    64 :> 1024 @@ 68 :> 1024 @@ 72 :> 1024 @@ 76 :> 1024 @@ 80 :> 1024 @@ 84 :> 1024 @@
    88 :> 1024 @@ 92 :> 1024 @@ 96 :> 1024 @@ 100 :> 1024 @@ 104 :> 1024 @@ 108 :> 1024 @@
    112 :> 1024 @@ 116 :> 1024 @@ 120 :> 1024 @@ 124 :> 1024 @@ 128 :> 1024 @@ 136 :> 1024 @@
    144 :> 1024 @@ 152 :> 1024 @@ 160 :> 1024 @@ 168 :> 1024 @@ 176 :> 1024 @@ 184 :> 992 @@
    192 :> 992 @@ 200 :> 992 @@ 208 :> 992 @@ 216 :> 992 @@ 224 :> 992 @@ 232 :> 992 @@
    240 :> 992 @@ 248 :> 992 @@ 256 :> 992 @@ 272 :> 992 @@ 288 :> 992 @@ 304 :> 992 @@
    320 :> 960 @@ 336 :> 960 @@ 352 :> 960 @@ 368 :> 960 @@ 384 :> 960 @@ 400 :> 960 @@
    416 :> 928 @@ 432 :> 928 @@ 448 :> 928 @@ 464 :> 928 @@ 480 :> 928 @@ 496 :> 896 @@
    512 :> 896 @@ 544 :> 896 @@ 576 :> 864 @@ 608 :> 864 @@ 640 :> 832 @@ 672 :> 800 @@
    704 :> 800 @@ 736 :> 768 @@ 768 :> 736 @@ 800 :> 736 @@ 832 :> 704 @@ 864 :> 672 @@
    896 :> 672 @@ 928 :> 640 @@ 960 :> 608 @@ 992 :> 576 @@ 1024 :> 544 @@ 1088 :> 496 @@
    1152 :> 448 @@ 1216 :> 384 @@ 1280 :> 320 @@ 1344 :> 256 @@ 1408 :> 200 @@ 1472 :> 136 @@
    1536 :> 72 @@ 1600 :> 8 @@ 1664 :> -56 @@ 1728 :> -120 @@ 1792 :> -184 @@ 1856 :> -248 @@
    1920 :> -304 @@ 1984 :> -368 @@ 2048 :> -432 @@ 2176 :> -544 @@ 2304 :> -640 @@ 2432 :> -736 @@
    2560 :> -832 @@ 2688 :> -896 @@ 2816 :> -960 @@ 2944 :> -992 @@ 3072 :> -1024 @@ 3200 :> -1024 @@
    3328 :> -1024 @@ 3456 :> -992 @@ 3584 :> -960 @@ 3712 :> -896 @@ 3840 :> -832 @@ 3968 :> -768 @@
    4096 :> -672
SinTable ==
    0 :> 0 @@ 1 :> 1 @@ 2 :> 2 @@ 3 :> 3 @@ 4 :> 4 @@ 5 :> 5 @@
    6 :> 6 @@ 7 :> 7 @@ 8 :> 8 @@ 9 :> 9 @@ 10 :> 10 @@ 11 :> 11 @@
    12 :> 12 @@ 13 :> 13 @@ 14 :> 14 @@ 15 :> 15 @@ 16 :> 16 @@ 17 :> 17 @@
    18 :> 18 @@ 19 :> 19 @@ 20 :> 20 @@ 21 :> 21 @@ 22 :> 22 @@ 23 :> 23 @@
    24 :> 24 @@ 25 :> 25 @@ 26 :> 26 @@ 27 :> 27 @@ 28 :> 28 @@ 29 :> 29 @@
    30 :> 30 @@ 31 :> 31 @@ 32 :> 32 @@ 34 :> 34 @@ 36 :> 36 @@ 38 :> 38 @@
    40 :> 40 @@ 42 :> 42 @@ 44 :> 44 @@ 46 :> 46 @@ 48 :> 48 @@ 50 :> 50 @@
    52 :> 52 @@ 54 :> 54 @@ 56 :> 56 @@ 58 :> 58 @@ 60 :> 60 @@ 62 :> 62 @@
    64 :> 64 @@ 68 :> 68 @@ 72 :> 72 @@ 76 :> 76 @@ 80 :> 80 @@ 84 :> 84 @@
    88 :> 88 @@ 92 :> 92 @@ 96 :> 96 @@ 100 :> 100 @@ 104 :> 104 @@ 108 :> 108 @@
    112 :> 112 @@ 116 :> 116 @@ 120 :> 120 @@ 124 :> 124 @@ 128 :> 128 @@ 136 :> 136 @@
    144 :> 144 @@ 152 :> 152 @@ 160 :> 160 @@ 168 :> 168 @@ 176 :> 176 @@ 184 :> 184 @@
    192 :> 192 @@ 200 :> 200 @@ 208 :> 208 @@ 216 :> 216 @@ 224 :> 224 @@ 232 :> 232 @@
    240 :> 240 @@ 248 :> 248 @@ 256 :> 256 @@ 272 :> 272 @@ 288 :> 288 @@ 304 :> 304 @@
    320 :> 320 @@ 336 :> 336 @@ 352 :> 352 @@ 368 :> 368 @@ 384 :> 368 @@ 400 :> 384 @@
    416 :> 400 @@ 432 :> 416 @@ 448 :> 432 @@ 464 :> 448 @@ 480 :> 464 @@ 496 :> 480 @@
    512 :> 496 @@ 544 :> 512 @@ 576 :> 544 @@ 608 :> 576 @@ 640 :> 608 @@ 672 :> 640 @@
    704 :> 640 @@ 736 :> 672 @@ 768 :> 704 @@ 800 :> 736 @@ 832 :> 736 @@ 864 :> 768 @@
    896 :> 800 @@ 928 :> 800 @@ 960 :> 832 @@ 992 :> 832 @@ 1024 :> 864 @@ 1088 :> 896 @@
    1152 :> 928 @@ 1216 :> 960 @@ 1280 :> 960 @@ 1344 :> 992 @@ 1408 :> 992 @@ 1472 :> 1024 @@
    1536 :> 1024 @@ 1600 :> 1024 @@ 1664 :> 1024 @@ 1728 :> 1024 @@ 1792 :> 992 @@ 1856 :> 992 @@
    1920 :> 992 @@ 1984 :> 960 @@ 2048 :> 928 @@ 2176 :> 864 @@ 2304 :> 800 @@ 2432 :> 704 @@
    2560 :> 608 @@ 2688 :> 512 @@ 2816 :> 384 @@ 2944 :> 272 @@ 3072 :> 144 @@ 3200 :> 17 @@
    3328 :> -112 @@ 3456 :> -240 @@ 3584 :> -352 @@ 3712 :> -480 @@ 3840 :> -576 @@ 3968 :> -672 @@
    4096 :> -768
TanTable ==
    0 :> 0 @@ 1 :> 1 @@ 2 :> 2 @@ 3 :> 3 @@ 4 :> 4 @@ 5 :> 5 @@
    6 :> 6 @@ 7 :> 7 @@ 8 :> 8 @@ 9 :> 9 @@ 10 :> 10 @@ 11 :> 11 @@
    12 :> 12 @@ 13 :> 13 @@ 14 :> 14 @@ 15 :> 15 @@ 16 :> 16 @@ 17 :> 17 @@
    18 :> 18 @@ 19 :> 19 @@ 20 :> 20 @@ 21 :> 21 @@ 22 :> 22 @@ 23 :> 23 @@
    24 :> 24 @@ 25 :> 25 @@ 26 :> 26 @@ 27 :> 27 @@ 28 :> 28 @@ 29 :> 29 @@
    30 :> 30 @@ 31 :> 31 @@ 32 :> 32 @@ 34 :> 34 @@ 36 :> 36 @@ 38 :> 38 @@
    40 :> 40 @@ 42 :> 42 @@ 44 :> 44 @@ 46 :> 46 @@ 48 :> 48 @@ 50 :> 50 @@
    52 :> 52 @@ 54 :> 54 @@ 56 :> 56 @@ 58 :> 58 @@ 60 :> 60 @@ 62 :> 62 @@
    64 :> 64 @@ 68 :> 68 @@ 72 :> 72 @@ 76 :> 76 @@ 80 :> 80 @@ 84 :> 84 @@
    88 :> 88 @@ 92 :> 92 @@ 96 :> 96 @@ 100 :> 100 @@ 104 :> 104 @@ 108 :> 108 @@
    112 :> 112 @@ 116 :> 116 @@ 120 :> 120 @@ 124 :> 124 @@ 128 :> 128 @@ 136 :> 136 @@
    144 :> 144 @@ 152 :> 152 @@ 160 :> 160 @@ 168 :> 168 @@ 176 :> 176 @@ 184 :> 184 @@
    192 :> 192 @@ 200 :> 200 @@ 208 :> 208 @@ 216 :> 216 @@ 224 :> 224 @@ 232 :> 240 @@
    240 :> 248 @@ 248 :> 256 @@ 256 :> 256 @@ 272 :> 272 @@ 288 :> 288 @@ 304 :> 320 @@
    320 :> 336 @@ 336 :> 352 @@ 352 :> 368 @@ 368 :> 384 @@ 384 :> 400 @@ 400 :> 416 @@
    416 :> 448 @@ 432 :> 464 @@ 448 :> 480 @@ 464 :> 496 @@ 480 :> 512 @@ 496 :> 544 @@
    512 :> 544 @@ 544 :> 608 @@ 576 :> 640 @@ 608 :> 704 @@ 640 :> 736 @@ 672 :> 800 @@
    704 :> 832 @@ 736 :> 896 @@ 768 :> 960 @@ 800 :> 1024 @@ 832 :> 1088 @@ 864 :> 1152 @@
    896 :> 1216 @@ 928 :> 1280 @@ 960 :> 1408 @@ 992 :> 1472 @@ 1024 :> 1600 @@ 1088 :> 1856 @@
    1152 :> 2176 @@ 1216 :> 2560 @@ 1280 :> 3072 @@ 1344 :> 3840 @@ 1408 :> 5120 @@ 1472 :> 7680 @@
    1536 :> 14336 @@ 1600 :> 122880
AcosTable ==
    -1024 :> 3200 @@ -992 :> 2944 @@ -960 :> 2816 @@ -928 :> 2816 @@ -896 :> 2688 @@ -864 :> 2688 @@
    -832 :> 2560 @@ -800 :> 2560 @@ -768 :> 2432 @@ -736 :> 2432 @@ -704 :> 2432 @@ -672 :> 2304 @@
    -640 :> 2304 @@ -608 :> 2304 @@ -576 :> 2176 @@ -544 :> 2176 @@ -512 :> 2176 @@ -496 :> 2176 @@
    -480 :> 2048 @@ -464 :> 2048 @@ -448 :> 2048 @@ -432 :> 2048 @@ -416 :> 2048 @@ -400 :> 2048 @@
    -384 :> 1984 @@ -368 :> 1984 @@ -352 :> 1984 @@ -336 :> 1920 @@ -320 :> 1920 @@ -304 :> 1920 @@
    -288 :> 1920 @@ -272 :> 1856 @@ -256 :> 1856 @@ -248 :> 1856 @@ -240 :> 1856 @@ -232 :> 1856 @@
    -224 :> 1856 @@ -216 :> 1856 @@ -208 :> 1792 @@ -200 :> 1792 @@ -192 :> 1792 @@ -184 :> 1792 @@
    -176 :> 1792 @@ -168 :> 1792 @@ -160 :> 1792 @@ -152 :> 1792 @@ -144 :> 1728 @@ -136 :> 1728 @@
    -128 :> 1728 @@ -124 :> 1728 @@ -120 :> 1728 @@ -116 :> 1728 @@ -112 :> 1728 @@ -108 :> 1728 @@
    -104 :> 1728 @@ -100 :> 1728 @@ -96 :> 1728 @@ -92 :> 1728 @@ -88 :> 1728 @@ -84 :> 1664 @@
    -80 :> 1664 @@ -76 :> 1664 @@ -72 :> 1664 @@ -68 :> 1664 @@ -64 :> 1664 @@ -62 :> 1664 @@
    -60 :> 1664 @@ -58 :> 1664 @@ -56 :> 1664 @@ -54 :> 1664 @@ -52 :> 1664 @@ -50 :> 1664 @@
    -48 :> 1664 @@ -46 :> 1664 @@ -44 :> 1664 @@ -42 :> 1664 @@ -40 :> 1664 @@ -38 :> 1664 @@
    -36 :> 1664 @@ -34 :> 1664 @@ -32 :> 1664 @@ -31 :> 1664 @@ -30 :> 1664 @@ -29 :> 1664 @@
    -28 :> 1664 @@ -27 :> 1664 @@ -26 :> 1664 @@ -25 :> 1664 @@ -24 :> 1664 @@ -23 :> 1600 @@
    -22 :> 1600 @@ -21 :> 1600 @@ -20 :> 1600 @@ -19 :> 1600 @@ -18 :> 1600 @@ -17 :> 1600 @@
    -16 :> 1600 @@ -15 :> 1600 @@ -14 :> 1600 @@ -13 :> 1600 @@ -12 :> 1600 @@ -11 :> 1600 @@
    -10 :> 1600 @@ -9 :> 1600 @@ -8 :> 1600 @@ -7 :> 1600 @@ -6 :> 1600 @@ -5 :> 1600 @@
    -4 :> 1600 @@ -3 :> 1600 @@ -2 :> 1600 @@ -1 :> 1600 @@ 0 :> 1600 @@ 1 :> 1600 @@
    2 :> 1600 @@ 3 :> 1600 @@ 4 :> 1600 @@ 5 :> 1600 @@ 6 :> 1600 @@ 7 :> 1600 @@
    8 :> 1600 @@ 9 :> 1600 @@ 10 :> 1600 @@ 11 :> 1600 @@ 12 :> 1600 @@ 13 :> 1600 @@
    14 :> 1600 @@ 15 :> 1600 @@ 16 :> 1600 @@ 17 :> 1600 @@ 18 :> 1600 @@ 19 :> 1600 @@
    20 :> 1600 @@ 21 :> 1600 @@ 22 :> 1600 @@ 23 :> 1600 @@ 24 :> 1600 @@ 25 :> 1600 @@
    26 :> 1600 @@ 27 :> 1600 @@ 28 :> 1600 @@ 29 :> 1600 @@ 30 :> 1600 @@ 31 :> 1600 @@
    32 :> 1600 @@ 34 :> 1600 @@ 36 :> 1600 @@ 38 :> 1600 @@ 40 :> 1600 @@ 42 :> 1536 @@
    44 :> 1536 @@ 46 :> 1536 @@ 48 :> 1536 @@ 50 :> 1536 @@ 52 :> 1536 @@ 54 :> 1536 @@
    56 :> 1536 @@ 58 :> 1536 @@ 60 :> 1536 @@ 62 :> 1536 @@ 64 :> 1536 @@ 68 :> 1536 @@
    72 :> 1536 @@ 76 :> 1536 @@ 80 :> 1536 @@ 84 :> 1536 @@ 88 :> 1536 @@ 92 :> 1536 @@
    96 :> 1536 @@ 100 :> 1536 @@ 104 :> 1536 @@ 108 :> 1472 @@ 112 :> 1472 @@ 116 :> 1472 @@
    120 :> 1472 @@ 124 :> 1472 @@ 128 :> 1472 @@ 136 :> 1472 @@ 144 :> 1472 @@ 152 :> 1472 @@
    160 :> 1472 @@ 168 :> 1408 @@ 176 :> 1408 @@ 184 :> 1408 @@ 192 :> 1408 @@ 200 :> 1408 @@
    208 :> 1408 @@ 216 :> 1408 @@ 224 :> 1408 @@ 232 :> 1344 @@ 240 :> 1344 @@ 248 :> 1344 @@
    256 :> 1344 @@ 272 :> 1344 @@ 288 :> 1344 @@ 304 :> 1280 @@ 320 :> 1280 @@ 336 :> 1280 @@
    352 :> 1280 @@ 368 :> 1216 @@ 384 :> 1216 @@ 400 :> 1216 @@ 416 :> 1152 @@ 432 :> 1152 @@
    448 :> 1152 @@ 464 :> 1152 @@ 480 :> 1088 @@ 496 :> 1088 @@ 512 :> 1088 @@ 544 :> 1024 @@
    576 :> 992 @@ 608 :> 960 @@ 640 :> 928 @@ 672 :> 864 @@ 704 :> 832 @@ 736 :> 800 @@
    768 :> 736 @@ 800 :> 704 @@ 832 :> 640 @@ 864 :> 576 @@ 896 :> 512 @@ 928 :> 448 @@
    960 :> 368 @@ 992 :> 256 @@ 1024 :> 0

Cos(x) == CosTable[Abs(x)]
Sin(x) == IF x < 0 THEN -SinTable[-x] ELSE SinTable[x]
Tan(x) == IF x < 0 THEN -TanTable[-x] ELSE TanTable[x]
\* math.acos raises ValueError("math domain error") outside [-1, 1]
AcosDomainError(x) == x > Unit \/ x < -Unit
Acos(x) == AcosTable[x]

\* --------------------------------------------- minimum_curvature_method
\* a survey station is the tuple (MD, I, A), angles in radians
\* measured depths: 0, 1, 2
Depths == {0, 1024, 2048}
\* (inclination, azimuth): vertical heading 0 and 1.5, 0.875 heading 0,
\* 1.25 heading 1.5
Orientations == {<<0, 0>>, <<0, 1536>>, <<896, 0>>, <<1280, 1536>>}
Stations == {<<md, o[1], o[2]>> : md \in Depths, o \in Orientations}
\* seeds (initial_easting, initial_northing, datum): 0, 0, 0 and 5.5, 7.25, 32
Seeds == {<<0, 0, 0>>, <<5632, 7424, 32768>>}

VARIABLES
    survey_data, initial_easting, initial_northing, datum,  \* the arguments
    easting_list, northing_list, tvd_list,                  \* the accumulators
    i,                \* the loop variable: index (from 0) of the station last
                      \* visited by the loop, 0 before the first iteration
    delta_MD, cos_DLS, DLS, RF,                    \* locals of the loop body,
    delta_Northing, delta_Easting, delta_TVD,      \* as last assigned
    pc,               \* "loop" | "returned" | "raised"
    result,           \* what the caller receives: NoResult, or the 3 lists
    ipr               \* the last IPR call and its outcome

trajVars == <<survey_data, initial_easting, initial_northing, datum,
              easting_list, northing_list, tvd_list, i,
              delta_MD, cos_DLS, DLS, RF,
              delta_Northing, delta_Easting, delta_TVD, pc, result>>
vars == <<trajVars, ipr>>

NoResult == <<>>
NoCall == [fn |-> "none", p_wf |-> 0, p_r |-> 0, x |-> 0,
           exc |-> "none", val |-> 0]

\* lines 29-31: the three lists start with the seed
\* (faulty variant: easting and northing seeds exchanged)
SeedLists_swapped(e, n, d) == <<<<n>>, <<e>>, <<d>>>>
SeedLists(e, n, d) == <<<<e>>, <<n>>, <<d>>>>

\* line 33: range(1, len(survey_data)) has a next index after i
\* (faulty variant: the loop stops one station early)
LoopContinues_short == i + 1 < Len(survey_data) - 1
LoopContinues == i + 1 < Len(survey_data)

\* line 43
CosDogleg(I1, I2, delta_A) ==
    FAdd(FMul(Cos(I1), Cos(I2)), FMul(FMul(Sin(I1), Sin(I2)), Cos(delta_A)))

\* line 44: math.acos is evaluated, and so may raise, only if delta_MD != 0
\* (faulty variant: math.acos evaluated before the delta_MD test)
DogLegRaises_eager(c, dMD) == AcosDomainError(c)
DogLegRaises(c, dMD) == dMD # 0 /\ AcosDomainError(c)
\* (faulty variant: the fallback taken for every delta_MD <= 0)
DogLegSeverity_nonpositive(c, dMD) == IF dMD > 0 THEN FDiv(Acos(c), dMD) ELSE 0
DogLegSeverity(c, dMD) == IF dMD # 0 THEN FDiv(Acos(c), dMD) ELSE 0

\* line 47
RatioFactor(D) == IF D # 0 THEN FMul(FDiv(Two, D), Tan(FDiv(D, Two))) ELSE Unit

\* lines 50-52
SinAvgI(I1, I2) == FDiv(FAdd(Sin(I1), Sin(I2)), Two)
AvgA(A1, A2) == FDiv(FAdd(A1, A2), Two)

\* lines 54-56
DeltaNorthing(rf, dMD, I1, I2, A1, A2) ==
    FMul(FMul(FMul(rf, dMD), SinAvgI(I1, I2)), Cos(AvgA(A1, A2)))
DeltaEasting(rf, dMD, I1, I2, A1, A2) ==
    FMul(FMul(FMul(rf, dMD), SinAvgI(I1, I2)), Sin(AvgA(A1, A2)))
\* (faulty variant: sines in place of cosines)
DeltaTVD_sin(rf, dMD, I1, I2) ==
    FDiv(FMul(FMul(rf, dMD), FAdd(Sin(I1), Sin(I2))), Two)
DeltaTVD(rf, dMD, I1, I2) ==
    FDiv(FMul(FMul(rf, dMD), FAdd(Cos(I1), Cos(I2))), Two)

\* lines 59-66: the new coordinate is the last one plus the increment,
\* appended
\* (faulty variants: the new coordinate inserted at the front; the increment
\* added to the first coordinate instead of the last)
Accumulate_front(list, delta) == <<FAdd(list[Len(list)], delta)>> \o list
Accumulate_first(list, delta) == Append(list, FAdd(list[1], delta))
Accumulate(list, delta) == Append(list, FAdd(list[Len(list)], delta))

\* an exception leaves the function: the caller receives nothing
\* (faulty variant: the lists built so far are handed to the caller)
Propagate_partial ==
    /\ pc' = "raised"
    /\ result' = <<easting_list, northing_list, tvd_list>>
Propagate ==
    /\ pc' = "raised"
    /\ result' = NoResult

\* lines 4, 29-31: the call, with its arguments bound and the lists seeded
Init ==
    /\ survey_data \in UNION {[1 .. n -> Stations] : n \in 0 .. MaxStations}
    /\ \E s \in Seeds :
        /\ initial_easting = s[1]
        /\ initial_northing = s[2]
        /\ datum = s[3]
    /\ easting_list = SeedLists(initial_easting, initial_northing, datum)[1]
    /\ northing_list = SeedLists(initial_easting, initial_northing, datum)[2]
    /\ tvd_list = SeedLists(initial_easting, initial_northing, datum)[3]
    /\ i = 0
    /\ delta_MD = 0 /\ cos_DLS = 0 /\ DLS = 0 /\ RF = 0
    /\ delta_Northing = 0 /\ delta_Easting = 0 /\ delta_TVD = 0
    /\ pc = "loop"
    /\ result = NoResult
    /\ ipr = NoCall

\* lines 33-66: one iteration of the loop, for the stations i-1 and i of the
\* program (survey_data[i + 1] and survey_data[i + 2] here, before i advances)
Iterate ==
    /\ pc = "loop"
    /\ LoopContinues
    /\ LET s1 == survey_data[i + 1]
           s2 == survey_data[i + 2]
           MD1 == s1[1]  I1 == s1[2]  A1 == s1[3]
           MD2 == s2[1]  I2 == s2[2]  A2 == s2[3]
       IN  /\ i' = i + 1
           /\ delta_MD' = FSub(MD2, MD1)
           /\ cos_DLS' = CosDogleg(I1, I2, FSub(A2, A1))
           /\ IF DogLegRaises(cos_DLS', delta_MD')
              THEN /\ Propagate
                   /\ UNCHANGED <<DLS, RF, delta_Northing, delta_Easting,
                                  delta_TVD, easting_list, northing_list,
                                  tvd_list>>
              ELSE /\ DLS' = DogLegSeverity(cos_DLS', delta_MD')
                   /\ RF' = RatioFactor(DLS')
                   /\ delta_Northing' =
                          DeltaNorthing(RF', delta_MD', I1, I2, A1, A2)
                   /\ delta_Easting' =
                          DeltaEasting(RF', delta_MD', I1, I2, A1, A2)
                   /\ delta_TVD' = DeltaTVD(RF', delta_MD', I1, I2)
                   /\ northing_list' =
                          Accumulate(northing_list, delta_Northing')
                   /\ easting_list' = Accumulate(easting_list, delta_Easting')
                   /\ tvd_list' = Accumulate(tvd_list, delta_TVD')
                   /\ UNCHANGED <<pc, result>>
    /\ UNCHANGED <<survey_data, initial_easting, initial_northing, datum, ipr>>

\* line 68
Return ==
    /\ pc = "loop"
    /\ ~LoopContinues
    /\ pc' = "returned"
    /\ result' = <<easting_list, northing_list, tvd_list>>
    /\ UNCHANGED <<survey_data, initial_easting, initial_northing, datum,
                   easting_list, northing_list, tvd_list, i,
                   delta_MD, cos_DLS, DLS, RF,
                   delta_Northing, delta_Easting, delta_TVD, ipr>>

Next == Iterate \/ Return

Spec == Init /\ [][Next]_vars

\* ------------------------------------------------- the IPR functions
\* the literals 0.2 and 0.8 of vogel.py, as floats
C02 == Fl(2 * Unit, 10)
C08 == Fl(8 * Unit, 10)

Returns(v) == [exc |-> "none", val |-> v]
Raises(e) == [exc |-> e, val |-> 0]

\* pi.py lines 17-26
PI_q(p_wf, p_r, PI) ==
    IF p_wf < 0 \/ p_r <= 0 THEN Raises("ValueError")
    ELSE IF p_wf > p_r THEN Raises("ValueError")
    ELSE Returns(FMul(PI, FSub(p_r, p_wf)))

\* pi.py lines 44-55
calculate_PI(q1, p_r, p_wf1) ==
    IF p_wf1 < 0 \/ p_r <= 0 THEN Raises("ValueError")
    ELSE IF p_wf1 > p_r THEN Raises("ValueError")
    ELSE IF FSub(p_r, p_wf1) = 0 THEN Raises("ValueError")
    ELSE Returns(FDiv(q1, FSub(p_r, p_wf1)))

\* vogel.py lines 27, 56: 1 - 0.2 * p_ratio - 0.8 * p_ratio**2
VogelFactor(p_ratio) ==
    FSub(FSub(Unit, FMul(C02, p_ratio)), FMul(C08, FMul(p_ratio, p_ratio)))

\* vogel.py lines 17-28
\* (faulty variant: a flowing pressure of 0 rejected)
Vogel_q_strict(p_wf, p_r, q_max) ==
    IF p_wf <= 0 \/ p_r <= 0 THEN Raises("ValueError")
    ELSE IF p_wf > p_r THEN Raises("ValueError")
    ELSE Returns(FMul(q_max, VogelFactor(FDiv(p_wf, p_r))))
Vogel_q(p_wf, p_r, q_max) ==
    IF p_wf < 0 \/ p_r <= 0 THEN Raises("ValueError")
    ELSE IF p_wf > p_r THEN Raises("ValueError")
    ELSE Returns(FMul(q_max, VogelFactor(FDiv(p_wf, p_r))))

\* vogel.py lines 46-57: the float division raises ZeroDivisionError when
\* the divisor is 0
calculate_qmax(q1, p_wf1, p_r) ==
    IF p_wf1 < 0 \/ p_r <= 0 THEN Raises("ValueError")
    ELSE IF p_wf1 > p_r THEN Raises("ValueError")
    ELSE IF VogelFactor(FDiv(p_wf1, p_r)) = 0 THEN Raises("ZeroDivisionError")
    ELSE Returns(FDiv(q1, VogelFactor(FDiv(p_wf1, p_r))))

\* pressures -1 .. MaxP; rates and indices 0 .. 2
Pressures == {Whole(p) : p \in -1 .. MaxP}
Rates == {Whole(r) : r \in 0 .. 2}

\* the record of a call and its outcome
Outcome(fn, p_wf, p_r, x, out) ==
    [fn |-> fn, p_wf |-> p_wf, p_r |-> p_r, x |-> x,
     exc |-> out.exc, val |-> out.val]

Call_PI_q ==
    /\ \E p_wf \in Pressures, p_r \in Pressures, PI \in Rates :
          ipr' = Outcome("pi.q", p_wf, p_r, PI, PI_q(p_wf, p_r, PI))
    /\ UNCHANGED trajVars

Call_calculate_PI ==
    /\ \E p_wf1 \in Pressures, p_r \in Pressures, q1 \in Rates :
          ipr' = Outcome("pi.calculate_PI", p_wf1, p_r, q1,
                         calculate_PI(q1, p_r, p_wf1))
    /\ UNCHANGED trajVars

Call_Vogel_q ==
    /\ \E p_wf \in Pressures, p_r \in Pressures, q_max \in Rates :
          ipr' = Outcome("vogel.q", p_wf, p_r, q_max,
                         Vogel_q(p_wf, p_r, q_max))
    /\ UNCHANGED trajVars

Call_calculate_qmax ==
    /\ \E p_wf1 \in Pressures, p_r \in Pressures, q1 \in Rates :
          ipr' = Outcome("vogel.calculate_qmax", p_wf1, p_r, q1,
                         calculate_qmax(q1, p_wf1, p_r))
    /\ UNCHANGED trajVars

\* the IPR functions are stateless and independent of the integrator: they
\* are called in any order, any number of times, with no trajectory call in
\* progress
IPRInit ==
    /\ survey_data = <<>>
    /\ initial_easting = 0 /\ initial_northing = 0 /\ datum = 0
    /\ easting_list = <<0>> /\ northing_list = <<0>> /\ tvd_list = <<0>>
    /\ i = 0
    /\ delta_MD = 0 /\ cos_DLS = 0 /\ DLS = 0 /\ RF = 0
    /\ delta_Northing = 0 /\ delta_Easting = 0 /\ delta_TVD = 0
    /\ pc = "returned"
    /\ result = <<<<0>>, <<0>>, <<0>>>>
    /\ ipr = NoCall

IPRNext ==
    Call_PI_q \/ Call_calculate_PI \/ Call_Vogel_q \/ Call_calculate_qmax

IPRSpec == IPRInit /\ [][IPRNext]_vars

\* ------------------------------------------------------------ claims
\* station k (from 1) of survey_data
MD(k) == survey_data[k][1]
Inc(k) == survey_data[k][2]
Azi(k) == survey_data[k][3]

\* an iteration has run: its stations are survey_data[i] and survey_data[i + 1]
Iterated == i >= 1
AllVertical == \A k \in 1 .. Len(survey_data) : Inc(k) = 0
NonDecreasing == \A k \in 2 .. Len(survey_data) : MD(k - 1) <= MD(k)
Representable(x) == Fl(x, 1) = x

\* C1: a call with at least one station that returns, returns three lists
\* whose common length is the number of stations.
C1_LengthInvariant ==
    (pc = "returned" /\ Len(survey_data) >= 1) =>
        /\ Len(result) = 3
        /\ Len(result[1]) = Len(survey_data)
        /\ Len(result[2]) = Len(survey_data)
        /\ Len(result[3]) = Len(survey_data)
C1_Witness == pc = "returned" /\ Len(survey_data) = 3

\* C2: with a non-empty survey, element 0 of each list is the seed, at every
\* point of the loop and in what is returned.
C2_SeedIdentity ==
    Len(survey_data) >= 1 =>
        /\ easting_list[1] = initial_easting
        /\ northing_list[1] = initial_northing
        /\ tvd_list[1] = datum
        /\ pc = "returned" =>
            /\ result[1][1] = initial_easting
            /\ result[2][1] = initial_northing
            /\ result[3][1] = datum
C2_Witness ==
    /\ pc = "returned"
    /\ Len(survey_data) = 3
    /\ initial_easting # initial_northing
    /\ easting_list[2] # initial_easting
    /\ easting_list[3] # easting_list[2]
    /\ tvd_list[3] # datum

\* C3: a step between two stations of equal measured depth does not raise,
\* has DLS = 0 and RF = 1, and adds nothing: result[i] = result[i-1].
C3_ZeroDeltaMD ==
    (Iterated /\ MD(i) = MD(i + 1)) =>
        /\ pc # "raised"
        /\ delta_MD = 0 /\ DLS = 0 /\ RF = Unit
        /\ delta_Northing = 0 /\ delta_Easting = 0 /\ delta_TVD = 0
        /\ easting_list[i + 1] = easting_list[i]
        /\ northing_list[i + 1] = northing_list[i]
        /\ tvd_list[i + 1] = tvd_list[i]
\* the angles differ, and cos_DLS is one math.acos would reject
C3_Witness ==
    /\ Iterated /\ MD(i) = MD(i + 1)
    /\ Inc(i) # Inc(i + 1) /\ Azi(i) # Azi(i + 1)
    /\ pc = "returned"
    /\ \E k \in 1 .. Len(survey_data) - 1 :
        /\ MD(k) = MD(k + 1)
        /\ AcosDomainError(CosDogleg(Inc(k), Inc(k + 1), FSub(Azi(k + 1), Azi(k))))

\* C4 as stated: with every inclination 0 the eastings and northings stay at
\* the seed and TVD[i] = datum + (MD_i - MD_0).
C4_AsStated ==
    (pc = "returned" /\ Len(survey_data) >= 1 /\ AllVertical) =>
        \A k \in 1 .. Len(survey_data) :
            /\ easting_list[k] = initial_easting
            /\ northing_list[k] = initial_northing
            /\ tvd_list[k] = FAdd(datum, FSub(MD(k), MD(1)))
\* C4 as amended: with every inclination 0 the call does not raise, the
\* eastings and northings stay at the seed, TVD[0] = datum and
\* TVD[i] = TVD[i-1] + (MD_i - MD_{i-1}) in float arithmetic; TVD[i] is
\* datum + (MD_i - MD_0) when none of these sums rounds.
C4_VerticalWell ==
    (Len(survey_data) >= 1 /\ AllVertical) =>
        /\ pc # "raised"
        /\ tvd_list[1] = datum
        /\ \A k \in 1 .. Len(tvd_list) :
            /\ easting_list[k] = initial_easting
            /\ northing_list[k] = initial_northing
            /\ k > 1 => tvd_list[k] = FAdd(tvd_list[k - 1], FSub(MD(k), MD(k - 1)))
            /\ (\A j \in 2 .. k : Representable(datum + MD(j) - MD(1)))
                   => tvd_list[k] = datum + MD(k) - MD(1)
\* a vertical well of three stations at different depths and azimuths whose
\* TVD sums round
C4_Witness ==
    /\ pc = "returned" /\ Len(survey_data) = 3 /\ AllVertical
    /\ MD(1) < MD(2) /\ MD(2) < MD(3)
    /\ Azi(1) # Azi(2)
    /\ tvd_list[3] # datum + MD(3) - MD(1)

\* C5: a step between two stations of identical inclination I and azimuth A
\* takes the DLS == 0 branch, so RF = 1, and its increments are
\* delta_MD*cos(I), delta_MD*sin(I)*cos(A) and delta_MD*sin(I)*sin(A).
C5_StraightLine ==
    (Iterated /\ Inc(i) = Inc(i + 1) /\ Azi(i) = Azi(i + 1)) =>
        /\ pc # "raised"
        /\ DLS = 0 /\ RF = Unit
        /\ delta_TVD = FMul(delta_MD, Cos(Inc(i)))
        /\ delta_Northing = FMul(FMul(delta_MD, Sin(Inc(i))), Cos(Azi(i)))
        /\ delta_Easting = FMul(FMul(delta_MD, Sin(Inc(i))), Sin(Azi(i)))

C7_NoPartialResult ==
    /\ pc # "returned" => result = NoResult
    /\ pc = "returned" =>
        /\ result = <<easting_list, northing_list, tvd_list>>
        /\ \A c \in 1 .. 3 : Len(result[c]) >= Len(survey_data)
\* an iteration raised after an earlier one had appended to the lists
C7_Witness ==
    /\ pc = "raised" /\ Len(tvd_list) = 2 /\ Len(survey_data) = 3
    /\ result = NoResult

\* C8 as stated: no call returns when the survey is empty or its measured
\* depths decrease somewhere.
C8_AsStated ==
    pc = "returned" => (Len(survey_data) >= 1 /\ NonDecreasing)
\* C8 as amended: no input is rejected.  An empty survey returns the three
\* one-element lists of the seed; decreasing depths are integrated like any
\* others; the only failure is the math domain error of acos in a step with
\* delta_MD != 0 and cos_DLS outside [-1, 1].
C8_NoValidation ==
    /\ Len(survey_data) = 0 =>
        /\ pc # "raised"
        /\ pc = "returned" =>
            result = <<<<initial_easting>>, <<initial_northing>>, <<datum>>>>
    /\ pc = "raised" => (delta_MD # 0 /\ AcosDomainError(cos_DLS))
    /\ (pc = "returned" /\ ~NonDecreasing) =>
            \A c \in 1 .. 3 : Len(result[c]) = Len(survey_data)
C8_Witness ==
    /\ pc = "returned" /\ Len(survey_data) = 3
    /\ MD(2) < MD(1) /\ MD(3) < MD(2)
    /\ initial_easting # initial_northing

\* C9: the pressures the claim calls invalid
PressureInvalid == ipr.p_wf < 0 \/ ipr.p_r <= 0 \/ ipr.p_wf > ipr.p_r
PairIncrement(s1, s2) ==
    LET dMD == FSub(s2[1], s1[1])
        rf == RatioFactor(DogLegSeverity(
                  CosDogleg(s1[2], s2[2], FSub(s2[3], s1[3])), dMD))
    IN  <<DeltaEasting(rf, dMD, s1[2], s2[2], s1[3], s2[3]),
          DeltaNorthing(rf, dMD, s1[2], s2[2], s1[3], s2[3]),
          DeltaTVD(rf, dMD, s1[2], s2[2])>>
\* C10: result[0] is the seed and result[i] = result[i-1] +
\* increment(station[i-1], station[i]) in each coordinate, for every element
\* the lists hold at any point of the loop; so the lists after k iterations,
\* which are what the call on the first k+1 stations returns, are a prefix of
\* the final result.
C10_SequentialScan ==
    /\ Len(easting_list) = Len(tvd_list)
    /\ Len(northing_list) = Len(tvd_list)
    /\ Len(tvd_list) = (IF pc = "raised" THEN i ELSE i + 1)
    /\ easting_list[1] = initial_easting
    /\ northing_list[1] = initial_northing
    /\ tvd_list[1] = datum
    /\ \A k \in 2 .. Len(tvd_list) :
        LET inc == PairIncrement(survey_data[k - 1], survey_data[k])
        IN  /\ easting_list[k] = FAdd(easting_list[k - 1], inc[1])
            /\ northing_list[k] = FAdd(northing_list[k - 1], inc[2])
            /\ tvd_list[k] = FAdd(tvd_list[k - 1], inc[3])
    /\ pc = "returned" => result = <<easting_list, northing_list, tvd_list>>
\* three stations, both steps curved and moving every coordinate
C10_Witness ==
    /\ pc = "returned" /\ Len(survey_data) = 3
    /\ initial_easting # 0
    /\ DLS # 0 /\ RF # Unit
    /\ easting_list[2] # easting_list[1] /\ easting_list[3] # easting_list[2]
    /\ northing_list[2] # northing_list[1] /\ northing_list[3] # northing_list[2]
    /\ tvd_list[2] # tvd_list[1] /\ tvd_list[3] # tvd_list[2]
====
